---------------------------- MODULE Spec2Model ----------------------------
(***************************************************************************)
(* A model of the IBus block of i3status-rust (src/blocks/ibus.rs):        *)
(* the discovery of the bus address (get_ibus_address), the construction   *)
(* of the block (ConfigBlock::new), the background listener thread it      *)
(* spawns, the signal filter (parse_msg) and the block's update().         *)
(*                                                                         *)
(* Text is modelled as a sequence of characters, so that the regular       *)
(* expressions, trim() and format!() of the source are computed character  *)
(* by character.  A character is a one-character string; a character that  *)
(* a TLA+ string cannot hold is the string of its code point, "U+0663".    *)
(***************************************************************************)
EXTENDS Naturals, Sequences, FiniteSets

(***************************************************************************)
(* Bounds of the model.                                                    *)
(***************************************************************************)
\* Number of messages the bus delivers or engine changes it makes.
MaxMsgs == 3
\* Number of calls of update() the scheduler makes.
MaxUpdates == 2

(***************************************************************************)
(* Option and Result values.  An Option is a sequence of length 0 or 1.    *)
(***************************************************************************)
None == <<>>
Some(x) == <<x>>
IsSome(o) == o # <<>>
Unwrap(o) == o[1]

Ok(v) == [ok |-> TRUE, val |-> v, err |-> ""]
Err(m) == [ok |-> FALSE, val |-> <<>>, err |-> m]

(***************************************************************************)
(* Text helpers.                                                           *)
(***************************************************************************)
Max(S) == CHOOSE x \in S : \A y \in S : y <= x
Min(S) == CHOOSE x \in S : \A y \in S : x <= y

\* pat occurs in s starting at position i.
IsAt(pat, s, i) ==
    /\ i >= 1
    /\ i + Len(pat) - 1 <= Len(s)
    /\ SubSeq(s, i, i + Len(pat) - 1) = pat

\* The character with code point n, for n outside ASCII: "U+" and n in
\* hexadecimal, four digits at least.
HexDigits ==
    <<"0", "1", "2", "3", "4", "5", "6", "7", "8", "9",
      "A", "B", "C", "D", "E", "F">>
RECURSIVE Hex(_, _)
Hex(n, w) ==
    IF w <= 0 /\ n = 0 THEN ""
    ELSE Hex(n \div 16, w - 1) \o HexDigits[(n % 16) + 1]
CodePoint(n) == "U+" \o Hex(n, 4)

\* The text as one string, as format!() writes it.
RECURSIVE Str(_)
Str(s) == IF s = <<>> THEN "" ELSE Head(s) \o Str(Tail(s))

\* What \d of the regex crate matches: the decimal digits of Unicode
\* (general category Nd), which come in runs of ten, 0 to 9; NdStarts are
\* the code points of the zeros outside ASCII.
NdStarts ==
    {\H0660, \H06F0, \H07C0, \H0966, \H09E6, \H0A66, \H0AE6, \H0B66, \H0BE6,
     \H0C66, \H0CE6, \H0D66, \H0DE6, \H0E50, \H0ED0, \H0F20, \H1040, \H1090,
     \H17E0, \H1810, \H1946, \H19D0, \H1A80, \H1A90, \H1B50, \H1BB0, \H1C40,
     \H1C50, \HA620, \HA8D0, \HA900, \HA9D0, \HA9F0, \HAA50, \HABF0, \HFF10,
     \H104A0, \H10D30, \H10D40, \H11066, \H110F0, \H11136, \H111D0, \H112F0,
     \H11450, \H114D0, \H11650, \H116C0, \H116D0, \H116DA, \H11730, \H118E0,
     \H11950, \H11BF0, \H11C50, \H11D50, \H11DA0, \H11F50, \H16130, \H16A60,
     \H16AC0, \H16B50, \H16D70, \H1CCF0, \H1D7CE, \H1D7D8, \H1D7E2, \H1D7EC,
     \H1D7F6, \H1E140, \H1E2F0, \H1E4F0, \H1E5F1, \H1E950, \H1FBF0}
Digits ==
    {"0", "1", "2", "3", "4", "5", "6", "7", "8", "9"}
    \cup {CodePoint(z + k) : z \in NdStarts, k \in 0..9}

\* What str::trim removes: the characters with the Unicode property
\* White_Space.
Whitespace ==
    {"\t", "\n", CodePoint(\H0B), "\f", "\r", " ", CodePoint(\H85),
     CodePoint(\HA0), CodePoint(\H1680), CodePoint(\H2028),
     CodePoint(\H2029), CodePoint(\H202F), CodePoint(\H205F),
     CodePoint(\H3000)}
    \cup {CodePoint(n) : n \in \H2000..\H200A}

RECURSIVE TrimStart(_)
TrimStart(s) ==
    IF s # <<>> /\ Head(s) \in Whitespace THEN TrimStart(Tail(s)) ELSE s

RECURSIVE TrimEnd(_)
TrimEnd(s) ==
    IF s # <<>> /\ s[Len(s)] \in Whitespace
    THEN TrimEnd(SubSeq(s, 1, Len(s) - 1))
    ELSE s

\* str::trim of the machine id, line 179.
trim_untrimmed(s) == s
trim(s) == TrimEnd(TrimStart(s))

(***************************************************************************)
(* The literals of get_ibus_address.                                       *)
(***************************************************************************)
MACHINE_ID_PATH ==
    <<"/", "e", "t", "c", "/", "m", "a", "c", "h", "i", "n", "e", "-", "i", "d">>
IBUS_BUS_DIR == <<"/", "i", "b", "u", "s", "/", "b", "u", "s", "/">>
hostname == <<"u", "n", "i", "x">>
KEY == <<"I", "B", "U", "S", "_", "A", "D", "D", "R", "E", "S", "S", "=">>
GUID == <<",", "g", "u", "i", "d">>

\* Error messages of the block_error calls of get_ibus_address.
E_XDG == "$XDG_CONFIG_HOME not set"
E_MID_OPEN == "Could not open /etc/machine-id"
E_MID_READ == "Something went wrong reading /etc/machine-id"
E_DISPLAY == "$DISPLAY not set. Try restarting bar if on sway"
E_DISPLAY_RE == "Failed to extract display number from $DISPLAY"
E_SOCK_OPEN(path) == "Could not open " \o Str(path)
E_SOCK_READ(path) == "Error reading contents of " \o Str(path)
E_ADDR_RE(contents) == "Failed to extract address out of " \o Str(contents)

(***************************************************************************)
(* The file system: a set of files [path, readable, content] with distinct *)
(* paths.  File::open fails when no file has the path; read_to_string      *)
(* fails when the file is not readable as text.                            *)
(***************************************************************************)
File(p, r, c) == [path |-> p, readable |-> r, content |-> c]

FileOpen(fs, path) ==
    LET hits == {f \in fs : f.path = path}
    IN  IF hits = {} THEN None ELSE Some(CHOOSE f \in hits : TRUE)

(***************************************************************************)
(* The regex on $DISPLAY, lines 187-190: the whole text is a colon         *)
(* followed by exactly one digit; the capture is that digit.               *)
(***************************************************************************)
display_captures(display_var) ==
    IF /\ Len(display_var) = 2
       /\ display_var[1] = ":"
       /\ display_var[2] \in Digits
    THEN Some(<<display_var[2]>>)
    ELSE None

(***************************************************************************)
(* The regex on the file's text, lines 200-203: the key IBUS_ADDRESS=, a   *)
(* captured run of any characters, and the text ",guid".  The              *)
(* match is the leftmost one; "." matches any character but a newline and  *)
(* ".*" is greedy, so at the chosen start the capture runs to the last     *)
(* ",guid" that a newline-free text separates from the key.                *)
(***************************************************************************)
NoNewline(s, a, b) == \A k \in a..b : s[k] # "\n"

\* The positions at which ",guid" may close a match whose key starts at i.
GuidEnds(s, i) ==
    {j \in (i + Len(KEY))..Len(s) :
        IsAt(GUID, s, j) /\ NoNewline(s, i + Len(KEY), j - 1)}

MatchStarts(s) == {i \in 1..Len(s) : IsAt(KEY, s, i) /\ GuidEnds(s, i) # {}}

address_captures_lazy(s) ==
    IF MatchStarts(s) = {} THEN None
    ELSE LET i == Min(MatchStarts(s))
         IN  Some(SubSeq(s, i + Len(KEY), Min(GuidEnds(s, i)) - 1))
address_captures(s) ==
    IF MatchStarts(s) = {} THEN None
    ELSE LET i == Min(MatchStarts(s))
         IN  Some(SubSeq(s, i + Len(KEY), Max(GuidEnds(s, i)) - 1))

\* format!("{}/ibus/bus/{}-{}-{}", config_dir, machine_id, hostname, display_number)
socket_path(config_dir, machine_id, display_number) ==
    config_dir \o IBUS_BUS_DIR \o machine_id \o <<"-">> \o hostname
        \o <<"-">> \o display_number

(***************************************************************************)
(* get_ibus_address, lines 165-208.  e is the environment: e.xdg and       *)
(* e.display are the two environment variables (Options), e.fs the files.  *)
(***************************************************************************)
get_ibus_address(e) ==
    IF ~IsSome(e.xdg) THEN Err(E_XDG)
    ELSE
    LET config_dir == Unwrap(e.xdg)
        mf == FileOpen(e.fs, MACHINE_ID_PATH)
    IN
    IF ~IsSome(mf) THEN Err(E_MID_OPEN)
    ELSE IF ~Unwrap(mf).readable THEN Err(E_MID_READ)
    ELSE
    LET machine_id == trim(Unwrap(mf).content)
    IN
    IF ~IsSome(e.display) THEN Err(E_DISPLAY)
    ELSE
    LET cap == display_captures(Unwrap(e.display))
    IN
    IF ~IsSome(cap) THEN Err(E_DISPLAY_RE)
    ELSE
    LET ibus_socket_path == socket_path(config_dir, machine_id, Unwrap(cap))
        sf == FileOpen(e.fs, ibus_socket_path)
    IN
    IF ~IsSome(sf) THEN Err(E_SOCK_OPEN(ibus_socket_path))
    ELSE IF ~Unwrap(sf).readable
         THEN Err(E_SOCK_READ(ibus_socket_path))
    ELSE
    LET cap2 == address_captures(Unwrap(sf).content)
    IN
    IF ~IsSome(cap2) THEN Err(E_ADDR_RE(Unwrap(sf).content))
    ELSE Ok(Unwrap(cap2))

(***************************************************************************)
(* The bus.  Engines are the engine names the daemon switches between; a   *)
(* message that reaches the listener's connection is a ConnectionItem      *)
(* [kind, interface, member, arg], arg being the Option that               *)
(* get1::<&str>() returns (None: no first argument, or not a string).      *)
(***************************************************************************)
US == <<"u", "s">>
JP == <<"j", "p">>
Engines == {US, JP}

IBUS_INTERFACE == "org.freedesktop.IBus"
GLOBAL_ENGINE_CHANGED == "GlobalEngineChanged"

\* A D-Bus value: its type t, and its text v when t = "str".
Elem(t, v) == [t |-> t, v |-> v]
Item(k, i, m, a) == [kind |-> k, interface |-> i, member |-> m, args |-> a]
\* ConnectionItem::Nothing, what c.iter yields when the timeout passes.
Nothing == Item("Nothing", "", "", <<>>)
\* The listener has not taken an item yet.
NoItem == Item("", "", "", <<>>)
EngineChangedSignal(e) ==
    Item("Signal", IBUS_INTERFACE, GLOBAL_ENGINE_CHANGED, <<Elem("str", e)>>)

\* Messages other than an engine-change signal with a text payload.
OtherMsgs ==
    { Item("MethodCall", IBUS_INTERFACE, GLOBAL_ENGINE_CHANGED,
           <<Elem("str", JP)>>),
      Item("Signal", "org.freedesktop.DBus", GLOBAL_ENGINE_CHANGED,
           <<Elem("str", JP)>>),
      Item("Signal", IBUS_INTERFACE, "RegistryChanged", <<Elem("str", JP)>>),
      Item("Signal", IBUS_INTERFACE, GLOBAL_ENGINE_CHANGED, <<>>),
      Item("Signal", IBUS_INTERFACE, GLOBAL_ENGINE_CHANGED,
           <<Elem("int", <<>>)>>) }

(***************************************************************************)
(* parse_msg, lines 135-149.                                               *)
(***************************************************************************)
\* Line 147, m.get1::<&str>(): the first argument when there is one and it
\* is text.
get1(item) ==
    IF Len(item.args) = 0 THEN None
    ELSE IF item.args[1].t = "str" THEN Some(item.args[1].v)
    ELSE None

parse_msg_no_member_check(item) ==
    IF item.kind # "Signal" THEN None
    ELSE IF item.interface # IBUS_INTERFACE THEN None
    ELSE get1(item)
parse_msg_or_sentinel(item) ==
    IF item.kind # "Signal" THEN None
    ELSE IF item.interface # IBUS_INTERFACE THEN None
    ELSE IF item.member # GLOBAL_ENGINE_CHANGED THEN None
    ELSE IF IsSome(get1(item)) THEN get1(item)
    ELSE Some(<<"?", "?">>)
parse_msg(item) ==
    IF item.kind # "Signal" THEN None
    ELSE IF item.interface # IBUS_INTERFACE THEN None
    ELSE IF item.member # GLOBAL_ENGINE_CHANGED THEN None
    ELSE get1(item)

(***************************************************************************)
(* The GlobalEngine property.  A value is [iter, elems]: iter says whether *)
(* as_iter() yields an iterator, elems are the elements it iterates over,  *)
(* each [t, v] with t its type and v its text when t = "str".              *)
(***************************************************************************)
Variant(i, es) == [iter |-> i, elems |-> es]
DescShapes == {"full", "nontext", "short", "scalar"}

\* What the daemon answers when its engine is e.
EngineDesc(shape, e) ==
    CASE shape = "full" ->
           Variant(TRUE, <<Elem("str", <<"D">>), Elem("dict", <<>>),
                           Elem("str", e), Elem("str", <<"L">>)>>)
      [] shape = "nontext" ->
           Variant(TRUE, <<Elem("str", <<"D">>), Elem("dict", <<>>),
                           Elem("int", <<>>), Elem("str", <<"L">>)>>)
      [] shape = "short" ->
           Variant(TRUE, <<Elem("str", <<"D">>), Elem("dict", <<>>)>>)
      [] OTHER -> Variant(FALSE, <<>>)

SENTINEL == <<"?", "?">>
PLACEHOLDER == <<"I", "B", "u", "s">>
E_OPEN(address) == "Failed to establish D-Bus connection to " \o Str(address)
E_QUERY == "Failed to query IBus"
E_STEP1 == "Failed to parse D-Bus message (step 1)"
E_STEP2 == "Failed to parse D-Bus message (step 2)"
E_LOCK == "failed to acquire lock"

\* as_str().unwrap_or("??"), lines 73-74.
as_str_or_sentinel(el) == IF el.t = "str" THEN el.v ELSE SENTINEL

(***************************************************************************)
(* current_engine, lines 67-74: the third element of the descriptor as     *)
(* text.                                                                   *)
(***************************************************************************)
current_engine_lenient(v) ==
    IF ~v.iter THEN Err(E_STEP1)
    ELSE IF Len(v.elems) < 3 THEN Ok(SENTINEL)
    ELSE Ok(as_str_or_sentinel(v.elems[3]))
current_engine_second(v) ==
    IF ~v.iter THEN Err(E_STEP1)
    ELSE IF Len(v.elems) < 3 THEN Err(E_STEP2)
    ELSE Ok(as_str_or_sentinel(v.elems[2]))
current_engine(v) ==
    IF ~v.iter THEN Err(E_STEP1)
    ELSE IF Len(v.elems) < 3 THEN Err(E_STEP2)
    ELSE Ok(as_str_or_sentinel(v.elems[3]))

(***************************************************************************)
(* The order of the statements of ConfigBlock::new, lines 47-103, and of   *)
(* the body of the listener's loop, lines 84-94: the statement that        *)
(* follows statement st.                                                   *)
(***************************************************************************)
NewNext_spawn_first(st) ==
    CASE st = "resolve" -> "spawn"
      [] st = "spawn" -> "open"
      [] st = "open" -> "query"
      [] st = "query" -> "parse"
      [] st = "parse" -> "return"
      [] OTHER -> "ok"
NewNext(st) ==
    CASE st = "resolve" -> "open"
      [] st = "open" -> "query"
      [] st = "query" -> "parse"
      [] st = "parse" -> "spawn"
      [] st = "spawn" -> "return"
      [] OTHER -> "ok"

ListenerNext_no_send(st) ==
    CASE st = "parse" -> "lock"
      [] st = "lock" -> "write"
      [] st = "write" -> "write_end"
      [] st = "write_end" -> "unlock"
      [] OTHER -> "iter"
ListenerNext_keeps_lock(st) ==
    CASE st = "parse" -> "lock"
      [] st = "lock" -> "write"
      [] st = "write" -> "write_end"
      [] st = "write_end" -> "send"
      [] OTHER -> "iter"
ListenerNext_send_first(st) ==
    CASE st = "parse" -> "send"
      [] st = "send" -> "lock"
      [] st = "lock" -> "write"
      [] st = "write" -> "write_end"
      [] st = "write_end" -> "unlock"
      [] OTHER -> "iter"
ListenerNext(st) ==
    CASE st = "parse" -> "lock"
      [] st = "lock" -> "write"
      [] st = "write" -> "write_end"
      [] st = "write_end" -> "send"
      [] st = "send" -> "unlock"
      [] OTHER -> "iter"

\* Mutex::lock succeeds at once when no thread holds the mutex.
LockFree_always(holder) == TRUE
LockFree(holder) == holder = "none"

\* The item c.iter yields next: the oldest one the connection has queued.
RecvIndex_newest(q) == Len(q)
RecvIndex(q) == 1

RemoveAt(q, i) == SubSeq(q, 1, i - 1) \o SubSeq(q, i + 1, Len(q))

\* The String of the store while the assignment of line 87 is under way:
\* the part already written is new, the rest still old.
PartlyWritten(old, new) ==
    IF new = <<>> THEN old
    ELSE <<Head(new)>> \o (IF old = <<>> THEN <<>> ELSE Tail(old))

\* The value assigned at line 87.
StoredValue_stale(old, new) == old
StoredValue(old, new) == new

Uuids == {"uuid-1"}
Task(i, n) == [id |-> i, seq |-> n]

(***************************************************************************)
(* The environments get_ibus_address is run in.                            *)
(***************************************************************************)
Roots == {<<"/", "c">>, <<>>}
Cores == {<<"m", "1">>, <<"m", " ", "2">>}
LeftPads == {<<>>, <<" ">>, <<"\f">>}
RightPads == {<<>>, <<"\n">>, <<CodePoint(\HA0), "\n">>}
\* U+0663 is ARABIC-INDIC DIGIT THREE.
Displays ==
    {<<":", "0">>, <<":", "1">>, <<":", "1", "0">>, <<"h", ":", "0">>,
     <<":", "a">>, <<":", "0", "\n">>, <<":", CodePoint(\H0663)>>}

ADDR_X ==
    <<"u", "n", "i", "x", ":", "a", "b", "s", "t", "r", "a", "c", "t", "=",
      "/", "t", "m", "p", "/", "x">>
Addresses == {ADDR_X, <<"a", ",", "g", "u", "i", "d", "Z">>, <<>>}
Tokens == {<<"a", "b", "c">>, <<>>, <<"b", ",", "g", "u", "i", "d">>}
\* The text of the file before the address line, and after it.
Prefixes ==
    {<<>>, <<"#", "c", "\n">>, KEY \o <<"z">> \o GUID \o <<"\n">>}
Suffixes == {<<>>, <<"\n", "P", "I", "D", "=", "1", "\n">>}

AddressLine(a, t) == KEY \o a \o GUID \o <<"=">> \o t

SocketTexts ==
    {pre \o AddressLine(a, t) \o suf :
        pre \in Prefixes, a \in Addresses, t \in Tokens, suf \in Suffixes}
    \cup {<<>>, KEY \o ADDR_X, <<"I", "B", "U", "S", "=">> \o ADDR_X \o GUID,
          KEY \o <<"u", "\n">> \o GUID}

\* Where a discovery file may lie: the path the claim names, written out.
SocketPathOf(r, core, d) ==
    r \o <<"/", "i", "b", "u", "s", "/", "b", "u", "s", "/">> \o core
      \o <<"-", "u", "n", "i", "x", "-">> \o <<d>>
SocketPlaces ==
    {SocketPathOf(<<"/", "c">>, <<"m", "1">>, "0"),
     SocketPathOf(<<"/", "c">>, <<"m", " ", "2">>, "1"),
     SocketPathOf(<<>>, <<"m", "1">>, "1"),
     SocketPathOf(<<"/", "c">>, <<"m", "1">>, CodePoint(\H0663))}

MachineFiles ==
    {{}} \cup {{File(MACHINE_ID_PATH, FALSE, <<>>)}}
    \cup {{File(MACHINE_ID_PATH, TRUE, l \o c \o r)} :
             l \in LeftPads, c \in Cores, r \in RightPads}
SocketFiles ==
    {{}} \cup {{File(p, FALSE, <<>>)} : p \in SocketPlaces}
    \cup {{File(p, TRUE, c)} : p \in SocketPlaces, c \in SocketTexts}

AddrEnvs ==
    {[xdg |-> x, display |-> d, fs |-> m \cup f] :
        x \in {None} \cup {Some(r) : r \in Roots},
        d \in {None} \cup {Some(v) : v \in Displays},
        m \in MachineFiles, f \in SocketFiles}

\* The environments of the runs of the whole block: one in which the
\* address is found, one in which $DISPLAY is not set.
GoodEnv ==
    [xdg |-> Some(<<"/", "c">>), display |-> Some(<<":", "0">>),
     fs |-> {File(MACHINE_ID_PATH, TRUE, <<"m", "1", "\n">>),
             File(SocketPathOf(<<"/", "c">>, <<"m", "1">>, "0"), TRUE,
                  <<"#", "c", "\n">> \o AddressLine(ADDR_X, <<"a", "b", "c">>)
                     \o <<"\n">>)}]
MainEnvs == {GoodEnv, [GoodEnv EXCEPT !.display = None]}

(***************************************************************************)
(* The state.                                                              *)
(***************************************************************************)
VARIABLES
    env,           \* environment variables and files
    busEngine,     \* the engine the daemon has now
    msgs,          \* messages and engine changes of the bus so far
    arrived,       \* history: payloads of the engine-change signals delivered
    cpc,           \* ConfigBlock::new: the statement it is at, "ok" or "err"
    id,            \* the block's id (None before it is drawn)
    ibus_address,  \* Option of the Result of get_ibus_address
    info,          \* Option of the answer to the GlobalEngine query
    newErr,        \* the error ConfigBlock::new returned ("" if none)
    engine,        \* the String in the Mutex
    lockHolder,    \* "none", "listener" or "update"
    poisoned,      \* the Mutex is poisoned
    lpc,           \* listener thread: the statement it is at
    subscribed,    \* the listener's match rule is installed
    inbox,         \* items queued on the listener's connection
    ci,            \* the item the listener is handling
    engine_name,   \* the payload parse_msg returned
    accepted,      \* history: payloads parse_msg returned, in order
    chan,          \* Tasks sent and not yet received by the scheduler
    recvSeq,       \* history: ordinal of the newest Task the scheduler received
    upc,           \* update(): the statement it is at
    snapshot,      \* the local `engine` of update()
    text,          \* the text of the TextWidget
    updates,       \* calls of update() so far
    updResult,     \* what the last update() returned
    uLow,          \* history: recvSeq when the running update() was called
    ret,           \* what the last id(), view() or click() returned
    writes,        \* history: writes of the String the listener has completed
    pushes         \* history: Tasks sent on the channel

envVars == <<env, busEngine, msgs, arrived>>
newVars == <<cpc, id, ibus_address, info, newErr>>
storeVars == <<engine, lockHolder, poisoned>>
lisVars == <<lpc, subscribed, inbox, ci, engine_name, accepted>>
chanVars == <<chan, recvSeq>>
updVars == <<upc, snapshot, text, updates, updResult, uLow>>
histVars == <<writes, pushes>>
vars ==
    <<envVars, newVars, storeVars, lisVars, chanVars, updVars, ret, histVars>>

InitRest ==
    /\ msgs = 0
    /\ arrived = <<>>
    /\ cpc = "resolve"
    /\ id = None
    /\ ibus_address = None
    /\ info = None
    /\ newErr = ""
    /\ engine = <<>>
    /\ lockHolder = "none"
    /\ poisoned = FALSE
    /\ lpc = "unspawned"
    /\ subscribed = FALSE
    /\ inbox = <<>>
    /\ ci = NoItem
    /\ engine_name = <<>>
    /\ accepted = <<>>
    /\ chan = <<>>
    /\ recvSeq = 0
    /\ upc = "idle"
    /\ snapshot = <<>>
    /\ text = <<>>
    /\ updates = 0
    /\ updResult = "none"
    /\ uLow = 0
    /\ ret = <<"none">>
    /\ writes = 0
    /\ pushes = 0

Init == env \in MainEnvs /\ busEngine \in Engines /\ InitRest

InitAddr == env \in AddrEnvs /\ busEngine = US /\ InitRest

(***************************************************************************)
(* ConfigBlock::new, lines 47-103.                                         *)
(***************************************************************************)
\* Lines 48-51: the id is drawn and the address resolved.
New_Resolve ==
    /\ cpc = "resolve"
    /\ \E u \in Uuids : id' = Some(u)
    /\ LET r == get_ibus_address(env)
       IN  /\ ibus_address' = Some(r)
           /\ IF r.ok
              THEN cpc' = NewNext("resolve") /\ newErr' = newErr
              ELSE cpc' = "err" /\ newErr' = r.err
    /\ UNCHANGED <<info, envVars, storeVars, lisVars, chanVars, updVars, ret,
                   writes, pushes>>

\* Lines 52-55: Connection::open_private succeeds or fails.
New_Open ==
    /\ cpc = "open"
    /\ \/ cpc' = NewNext("open") /\ newErr' = newErr
       \/ cpc' = "err" /\ newErr' = E_OPEN(Unwrap(ibus_address).val)
    /\ UNCHANGED <<id, ibus_address, info, envVars, storeVars, lisVars,
                   chanVars, updVars, ret, writes, pushes>>

\* Lines 56-59: the GlobalEngine property is read, or the query fails.
New_Query ==
    /\ cpc = "query"
    /\ \/ /\ \E shape \in DescShapes :
                info' = Some(EngineDesc(shape, busEngine))
          /\ cpc' = NewNext("query")
          /\ newErr' = newErr
       \/ cpc' = "err" /\ newErr' = E_QUERY /\ info' = info
    /\ UNCHANGED <<id, ibus_address, envVars, storeVars, lisVars, chanVars,
                   updVars, ret, writes, pushes>>

\* Lines 67-77: the engine name is taken from the answer and the store seeded.
New_Parse ==
    /\ cpc = "parse"
    /\ LET r == current_engine(Unwrap(info))
       IN  IF r.ok
           THEN /\ engine' = r.val
                /\ cpc' = NewNext("parse")
                /\ newErr' = newErr
           ELSE /\ engine' = engine
                /\ cpc' = "err"
                /\ newErr' = r.err
    /\ UNCHANGED <<id, ibus_address, info, lockHolder, poisoned, envVars,
                   lisVars, chanVars, updVars, ret, writes, pushes>>

\* Line 78: thread::spawn.
New_Spawn ==
    /\ cpc = "spawn"
    /\ lpc' = "open"
    /\ cpc' = NewNext("spawn")
    /\ UNCHANGED <<id, ibus_address, info, newErr, subscribed, inbox, ci,
                   engine_name, accepted, envVars, storeVars, chanVars,
                   updVars, ret, writes, pushes>>

\* Lines 98-102: Ok(IBus { .. }), the widget showing "IBus".
New_Return ==
    /\ cpc = "return"
    /\ text' = PLACEHOLDER
    /\ cpc' = NewNext("return")
    /\ UNCHANGED <<id, ibus_address, info, newErr, upc, snapshot, updates,
                   updResult, uLow, envVars, storeVars, lisVars, chanVars,
                   ret, writes, pushes>>

(***************************************************************************)
(* The listener thread, lines 78-96.                                       *)
(***************************************************************************)
\* Variant: every panic of the thread poisons the lock of the store.
Panicked_poisons ==
    /\ lpc' = "panicked"
    /\ poisoned' = TRUE
    /\ lockHolder' = IF lockHolder = "listener" THEN "none" ELSE lockHolder

\* The thread panics: a lock it holds is poisoned and released.
Panicked ==
    /\ lpc' = "panicked"
    /\ poisoned' = (poisoned \/ lockHolder = "listener")
    /\ lockHolder' = IF lockHolder = "listener" THEN "none" ELSE lockHolder

\* Lines 79-80: open_private(..).expect(..).
L_Open ==
    /\ lpc = "open"
    /\ \/ lpc' = "add_match" /\ UNCHANGED <<lockHolder, poisoned>>
       \/ Panicked
    /\ UNCHANGED <<engine, subscribed, inbox, ci, engine_name, accepted,
                   envVars, newVars, chanVars, updVars, ret, writes, pushes>>

\* Lines 81-82: add_match(..).expect(..).
L_AddMatch ==
    /\ lpc = "add_match"
    /\ \/ /\ lpc' = "iter"
          /\ subscribed' = TRUE
          /\ UNCHANGED <<lockHolder, poisoned>>
       \/ Panicked /\ subscribed' = subscribed
    /\ UNCHANGED <<engine, inbox, ci, engine_name, accepted, envVars,
                   newVars, chanVars, updVars, ret, writes, pushes>>

\* Line 84: c.iter yields the next queued item.
L_Iter ==
    /\ lpc = "iter"
    /\ inbox # <<>>
    /\ ci' = inbox[RecvIndex(inbox)]
    /\ inbox' = RemoveAt(inbox, RecvIndex(inbox))
    /\ lpc' = "parse"
    /\ UNCHANGED <<subscribed, engine_name, accepted, envVars, newVars,
                   storeVars, chanVars, updVars, ret, writes, pushes>>

\* Line 84: nothing is queued and the timeout passes.
L_IterTimeout ==
    /\ lpc = "iter"
    /\ inbox = <<>>
    /\ ci' = Nothing
    /\ lpc' = "parse"
    /\ UNCHANGED <<subscribed, inbox, engine_name, accepted, envVars,
                   newVars, storeVars, chanVars, updVars, ret,
                   writes, pushes>>

\* Line 85: if let Some(engine_name) = parse_msg(&ci).
L_Parse ==
    /\ lpc = "parse"
    /\ LET r == parse_msg(ci)
       IN  IF IsSome(r)
           THEN /\ engine_name' = Unwrap(r)
                /\ accepted' = Append(accepted, Unwrap(r))
                /\ lpc' = ListenerNext("parse")
                /\ ci' = ci
           ELSE /\ engine_name' = engine_name
                /\ accepted' = accepted
                /\ lpc' = "iter"
                /\ ci' = ci
    /\ UNCHANGED <<subscribed, inbox, envVars, newVars, storeVars, chanVars,
                   updVars, ret, writes, pushes>>

\* Line 86: engine_original.lock().unwrap().
L_Lock ==
    /\ lpc = "lock"
    /\ IF poisoned
       THEN Panicked
       ELSE /\ LockFree(lockHolder)
            /\ lockHolder' = "listener"
            /\ lpc' = ListenerNext("lock")
            /\ poisoned' = poisoned
    /\ UNCHANGED <<engine, subscribed, inbox, ci, engine_name, accepted,
                   envVars, newVars, chanVars, updVars, ret, writes, pushes>>

\* Line 87, begun: the String is being overwritten.
L_Write ==
    /\ lpc = "write"
    /\ engine' = PartlyWritten(engine, StoredValue(engine, engine_name))
    /\ lpc' = ListenerNext("write")
    /\ UNCHANGED <<lockHolder, poisoned, subscribed, inbox, ci, engine_name,
                   accepted, envVars, newVars, chanVars, updVars, ret,
                   writes, pushes>>

\* Variant: the listener also sets the text of the widget.
L_WriteEnd_sets_text ==
    /\ lpc = "write_end"
    /\ engine' = StoredValue(engine, engine_name)
    /\ text' = StoredValue(engine, engine_name)
    /\ writes' = writes + 1
    /\ lpc' = ListenerNext("write_end")
    /\ UNCHANGED <<lockHolder, poisoned, subscribed, inbox, ci, engine_name,
                   accepted, envVars, newVars, chanVars, upc, snapshot,
                   updates, updResult, uLow, ret, pushes>>

\* Line 87, done.
L_WriteEnd ==
    /\ lpc = "write_end"
    /\ engine' = StoredValue(engine, engine_name)
    /\ writes' = writes + 1
    /\ lpc' = ListenerNext("write_end")
    /\ UNCHANGED <<lockHolder, poisoned, subscribed, inbox, ci, engine_name,
                   accepted, envVars, newVars, chanVars, updVars, ret,
                   pushes>>

\* Variant: the result of send is unwrapped, and send can fail.
L_Send_unwrap ==
    /\ lpc = "send"
    /\ \/ /\ chan' = Append(chan, Task(Unwrap(id), Len(accepted)))
          /\ pushes' = pushes + 1
          /\ lpc' = ListenerNext("send")
          /\ UNCHANGED <<lockHolder, poisoned>>
       \/ Panicked /\ UNCHANGED <<chan, pushes>>
    /\ UNCHANGED <<engine, recvSeq, subscribed, inbox, ci, engine_name,
                   accepted, envVars, newVars, updVars, ret, writes>>

\* Lines 89-92: send.send(Task { id, update_time }).
L_Send ==
    /\ lpc = "send"
    /\ chan' = Append(chan, Task(Unwrap(id), Len(accepted)))
    /\ pushes' = pushes + 1
    /\ lpc' = ListenerNext("send")
    /\ UNCHANGED <<recvSeq, subscribed, inbox, ci, engine_name, accepted,
                   envVars, newVars, storeVars, updVars, ret, writes>>

\* Line 93: the guard goes out of scope.
L_Unlock ==
    /\ lpc = "unlock"
    /\ lockHolder' = "none"
    /\ lpc' = ListenerNext("unlock")
    /\ UNCHANGED <<engine, poisoned, subscribed, inbox, ci, engine_name,
                   accepted, envVars, newVars, chanVars, updVars, ret,
                   writes, pushes>>

(***************************************************************************)
(* Block::update, lines 112-120.                                           *)
(***************************************************************************)
\* The scheduler calls update() on the block.
U_Call ==
    /\ cpc = "ok"
    /\ upc = "idle"
    /\ updates < MaxUpdates
    /\ updates' = updates + 1
    /\ upc' = "lock"
    /\ uLow' = recvSeq
    /\ UNCHANGED <<snapshot, text, updResult, envVars, newVars, storeVars,
                   lisVars, chanVars, ret, writes, pushes>>

\* Lines 113-116: self.engine.lock().block_error(..)?
U_Lock ==
    /\ upc = "lock"
    /\ IF poisoned
       THEN /\ upc' = "idle"
            /\ updResult' = E_LOCK
            /\ lockHolder' = lockHolder
       ELSE /\ LockFree(lockHolder)
            /\ lockHolder' = "update"
            /\ upc' = "clone"
            /\ updResult' = updResult
    /\ UNCHANGED <<engine, poisoned, snapshot, text, updates, uLow, envVars,
                   newVars, lisVars, chanVars, ret, writes, pushes>>

\* Line 117: .clone() of the String.
U_Clone ==
    /\ upc = "clone"
    /\ snapshot' = engine
    /\ upc' = "drop"
    /\ UNCHANGED <<text, updates, updResult, uLow, envVars, newVars,
                   storeVars, lisVars, chanVars, ret, writes, pushes>>

\* Line 117: the temporary guard is dropped at the end of the statement.
U_Unlock ==
    /\ upc = "drop"
    /\ lockHolder' = "none"
    /\ upc' = "set_text"
    /\ UNCHANGED <<engine, poisoned, snapshot, text, updates, updResult,
                   uLow, envVars, newVars, lisVars, chanVars, ret,
                   writes, pushes>>

\* Variant: update() asks to be run again after an interval.
U_SetText_rescheduled ==
    /\ upc = "set_text"
    /\ text' = snapshot
    /\ updResult' = "Ok(Some(interval))"
    /\ upc' = "idle"
    /\ UNCHANGED <<snapshot, updates, uLow, envVars, newVars, storeVars,
                   lisVars, chanVars, ret, writes, pushes>>

\* Lines 118-119: set_text(engine); Ok(None).
U_SetText ==
    /\ upc = "set_text"
    /\ text' = snapshot
    /\ updResult' = "Ok(None)"
    /\ upc' = "idle"
    /\ UNCHANGED <<snapshot, updates, uLow, envVars, newVars, storeVars,
                   lisVars, chanVars, ret, writes, pushes>>

(***************************************************************************)
(* The other methods of impl Block, lines 107-109 and 123-132.  They take  *)
(* &self or &mut self, so none runs while update() does.                   *)
(***************************************************************************)
\* Lines 107-109: id() returns the id.
B_Id ==
    /\ cpc = "ok"
    /\ upc = "idle"
    /\ ret' = <<"id", Unwrap(id)>>
    /\ UNCHANGED <<envVars, newVars, storeVars, lisVars, chanVars, updVars,
                   writes, pushes>>

\* Lines 123-125: view() returns the one widget, whose content is the text.
B_View ==
    /\ cpc = "ok"
    /\ upc = "idle"
    /\ ret' = <<"view", <<text>>>>
    /\ UNCHANGED <<envVars, newVars, storeVars, lisVars, chanVars, updVars,
                   writes, pushes>>

\* Variant: click() asks the scheduler for an update.
B_Click_notifies ==
    /\ cpc = "ok"
    /\ upc = "idle"
    /\ ret' = <<"click", "Ok(())">>
    /\ chan' = Append(chan, Task(Unwrap(id), Len(accepted)))
    /\ pushes' = pushes + 1
    /\ UNCHANGED <<recvSeq, envVars, newVars, storeVars, lisVars, updVars,
                   writes>>

\* Lines 130-132: click() ignores the event and returns Ok(()).
B_Click ==
    /\ cpc = "ok"
    /\ upc = "idle"
    /\ ret' = <<"click", "Ok(())">>
    /\ UNCHANGED <<envVars, newVars, storeVars, lisVars, chanVars, updVars,
                   writes, pushes>>

(***************************************************************************)
(* The surroundings: the IBus daemon and the scheduler.                    *)
(***************************************************************************)
\* The daemon switches to engine e and emits GlobalEngineChanged(e), which
\* reaches the connections whose match rule is installed.
Bus_EngineChange ==
    /\ cpc # "err"
    /\ msgs < MaxMsgs
    /\ \E e \in Engines \ {busEngine} :
          /\ busEngine' = e
          /\ IF subscribed
             THEN /\ inbox' = Append(inbox, EngineChangedSignal(e))
                  /\ arrived' = Append(arrived, e)
             ELSE /\ inbox' = inbox
                  /\ arrived' = arrived
    /\ msgs' = msgs + 1
    /\ UNCHANGED <<env, lpc, subscribed, ci, engine_name, accepted, newVars,
                   storeVars, chanVars, updVars, ret, writes, pushes>>

\* Another message reaches the listener's connection.
Bus_Other ==
    /\ lpc \in {"add_match", "iter", "parse", "lock", "write", "write_end",
                "send", "unlock"}
    /\ msgs < MaxMsgs
    /\ \E m \in OtherMsgs : inbox' = Append(inbox, m)
    /\ msgs' = msgs + 1
    /\ UNCHANGED <<env, busEngine, arrived, lpc, subscribed, ci, engine_name,
                   accepted, newVars, storeVars, chanVars, updVars, ret,
                   writes, pushes>>

\* The scheduler receives the oldest Task of the channel.
S_Recv ==
    /\ chan # <<>>
    /\ recvSeq' = Head(chan).seq
    /\ chan' = Tail(chan)
    /\ UNCHANGED <<envVars, newVars, storeVars, lisVars, updVars, ret,
                   writes, pushes>>

Next ==
    \/ New_Resolve \/ New_Open \/ New_Query \/ New_Parse \/ New_Spawn
    \/ New_Return
    \/ L_Open \/ L_AddMatch \/ L_Iter \/ L_IterTimeout \/ L_Parse \/ L_Lock
    \/ L_Write \/ L_WriteEnd \/ L_Send \/ L_Unlock
    \/ U_Call \/ U_Lock \/ U_Clone \/ U_Unlock \/ U_SetText
    \/ Bus_EngineChange \/ Bus_Other \/ S_Recv

Spec == Init /\ [][Next]_vars

\* The block with all the methods of impl Block, in the environment where
\* every step of discovery succeeds.
InitBlock == env = GoodEnv /\ busEngine = US /\ InitRest
NextBlock == Next \/ B_Id \/ B_View \/ B_Click
SpecBlock == InitBlock /\ [][NextBlock]_vars

\* get_ibus_address alone, over the environments of AddrEnvs.
NextAddr == New_Resolve
SpecAddr == InitAddr /\ [][NextAddr]_vars

(***************************************************************************)
(* Properties.                                                             *)
(***************************************************************************)
Range(q) == {q[i] : i \in 1..Len(q)}

\* The running or last update() has copied the store.
SnapshotTaken == updates > 0 /\ upc \notin {"lock", "clone"}

\* The listener has handled every item delivered to it.
DeliveriesComplete == lpc = "iter" /\ inbox = <<>>

\* The descriptor the query returned: its third element is text, is absent,
\* or is present and not text.
Usable(v) == v.iter /\ Len(v.elems) >= 3 /\ v.elems[3].t = "str"
Missing(v) == v.iter /\ Len(v.elems) < 3
Malformed(v) == v.iter /\ Len(v.elems) >= 3 /\ v.elems[3].t # "str"

\* The value the store was seeded with, for a descriptor of three or more
\* elements.
SeededValue ==
    IF Usable(Unwrap(info)) THEN Unwrap(info).elems[3].v ELSE SENTINEL

\* The item is the subscribed signal.
Matches(item) ==
    /\ item.kind = "Signal"
    /\ item.interface = "org.freedesktop.IBus"
    /\ item.member = "GlobalEngineChanged"

\* C1: write-then-notify.  When a Task is pushed, the store already holds
\* the payload of the signal the Task is for; and the snapshot of an
\* update() called after the scheduler received the Task of the n-th
\* accepted signal is the payload of the n-th or of a later accepted signal.
C1_WriteThenNotify ==
    /\ [](SnapshotTaken /\ uLow > 0 =>
            \E k \in uLow..Len(accepted) : snapshot = accepted[k])
    /\ [][Len(chan') > Len(chan) =>
            /\ chan'[Len(chan')].seq \in 1..Len(accepted)
            /\ engine = accepted[chan'[Len(chan')].seq]]_vars

\* An update() called after the first Task was received has read the
\* first payload.
C1_Witness ==
    /\ uLow = 1
    /\ upc = "drop"
    /\ snapshot = accepted[1]

\* C2: once the listener has handled all that was delivered to it, the store
\* holds the engine the daemon has now.
C2_NoMissedUpdate ==
    (subscribed /\ DeliveriesComplete /\ IsSome(info) /\ Usable(Unwrap(info)))
        => engine = busEngine

\* C3: the listener accepts signals in the order of their arrival, and once
\* it has handled all N >= 1 of them the store, and a copy update() takes
\* of it, is the payload of the last.
C3_LatestValue ==
    /\ Len(accepted) <= Len(arrived)
    /\ accepted = SubSeq(arrived, 1, Len(accepted))
    /\ (DeliveriesComplete /\ Len(arrived) >= 1) =>
          /\ engine = arrived[Len(arrived)]
          /\ (upc = "drop" => snapshot = arrived[Len(arrived)])

\* update() has copied the store after two signals were handled.
C3_Witness ==
    /\ DeliveriesComplete
    /\ Len(arrived) >= 2
    /\ upc = "drop"
    /\ snapshot = arrived[2]

\* C4: an item that is not a signal of interface org.freedesktop.IBus and
\* member GlobalEngineChanged sends the listener back to the receive loop
\* with the store and the channel as they were; the listener writes the
\* store or pushes a Task only while it handles a matching signal.
C4_SignalFilter ==
    [][/\ (lpc = "parse" /\ ~Matches(ci) /\ lpc' # "parse") =>
            /\ lpc' = "iter"
            /\ engine' = engine
            /\ chan' = chan
            /\ accepted' = accepted
       /\ (lpc # "unspawned" /\ (engine' # engine \/ Len(chan') > Len(chan)))
            => Matches(ci)]_vars

\* A signal of the right interface and another member has been dropped:
\* nothing was accepted and the store is as seeded.
C4_Witness ==
    /\ lpc = "iter"
    /\ ci.kind = "Signal"
    /\ ci.interface = "org.freedesktop.IBus"
    /\ ci.member = "RegistryChanged"
    /\ accepted = <<>>
    /\ chan = <<>>
    /\ engine = SeededValue

\* C5: every snapshot update() takes, and every text it displays, is the
\* seeded value or the whole payload of an accepted signal.
C5_NoTornReads ==
    /\ SnapshotTaken => snapshot \in {SeededValue} \cup Range(accepted)
    /\ cpc = "ok" => text \in {PLACEHOLDER, SeededValue} \cup Range(accepted)

\* update() waits for the lock while the store is half written.
C5_Witness ==
    /\ upc = "lock"
    /\ lpc = "write_end"
    /\ lockHolder = "listener"
    /\ engine \notin {SeededValue} \cup Range(accepted)

\* C6: when get_ibus_address fails, construction fails with its error; and
\* when construction has failed, for whatever reason, there is no block, no
\* listener thread, and no Task was pushed or received.
C6_AllOrNothing ==
    /\ (IsSome(ibus_address) /\ ~Unwrap(ibus_address).ok) =>
          cpc = "err" /\ newErr = Unwrap(ibus_address).err
    /\ cpc = "err" =>
          /\ newErr # ""
          /\ lpc = "unspawned"
          /\ ~subscribed
          /\ chan = <<>>
          /\ recvSeq = 0
          /\ text = <<>>
          /\ updates = 0

\* Construction has failed at the GlobalEngine query.
C6_Witness == cpc = "err" /\ newErr = "Failed to query IBus"

\* The constructor is past the statement that reads the descriptor.
PastParse == IsSome(info) /\ cpc \notin {"query", "parse"}

\* The store is seeded with "??" and an update() that ran before any signal
\* was accepted displays "??".
SentinelSeeded ==
    /\ cpc # "err"
    /\ accepted = <<>> => engine = SENTINEL
    /\ (accepted = <<>> /\ updates >= 1 /\ upc = "idle") => text = SENTINEL

\* C7, as claimed: a descriptor whose third element is absent or is not
\* text does not fail construction; the store is seeded with "??" and the
\* next update() displays "??".
C7_SentinelAsClaimed ==
    (PastParse /\ (Missing(Unwrap(info)) \/ Malformed(Unwrap(info))))
        => SentinelSeeded

\* C7, amended: a descriptor whose third element is present and not text
\* does not fail construction; the store is seeded with "??" and the next
\* update() displays "??".  A descriptor of fewer than three elements fails
\* construction with the error of step 2, and no block exists.
C7_SentinelDegradation ==
    /\ (PastParse /\ Malformed(Unwrap(info))) => SentinelSeeded
    /\ (PastParse /\ Missing(Unwrap(info))) =>
          /\ cpc = "err"
          /\ newErr = "Failed to parse D-Bus message (step 2)"
          /\ lpc = "unspawned"
          /\ text = <<>>

\* update() displays "??" after a descriptor whose third element is no text.
C7_Witness ==
    /\ PastParse
    /\ Malformed(Unwrap(info))
    /\ updates >= 1
    /\ upc = "idle"
    /\ accepted = <<>>
    /\ text = <<"?", "?">>

\* C8: when the query returned a descriptor whose third element is the text
\* v, an update() that has run before any signal was accepted has displayed
\* v, which is neither "??" nor "IBus".
C8_InitialValue ==
    (/\ cpc = "ok"
     /\ Usable(Unwrap(info))
     /\ updates >= 1
     /\ upc = "idle"
     /\ accepted = <<>>)
        => /\ text = Unwrap(info).elems[3].v
           /\ text # <<"?", "?">>
           /\ text # <<"I", "B", "u", "s">>
           /\ updResult = "Ok(None)"

\* Two calls of update() have run before any signal was accepted.
C8_Witness ==
    /\ cpc = "ok"
    /\ Usable(Unwrap(info))
    /\ updates = 2
    /\ upc = "idle"
    /\ accepted = <<>>
    /\ text \in Engines

\* C9: a thread that holds the lock of the store is only writing or copying
\* the String: the listener holds it neither while it receives from the bus
\* nor while it pushes the Task, update() only for the copy.
C9_NoLockDuringIO ==
    /\ lockHolder = "listener" => lpc \in {"write", "write_end", "unlock"}
    /\ lockHolder = "update" => upc \in {"clone", "drop"}

(***************************************************************************)
(* Properties of get_ibus_address, under SpecAddr.                         *)
(***************************************************************************)
\* The environment of the claim: the config root R is set, the machine-id
\* file holds a core c within white space (so that trim gives c), $DISPLAY
\* is a colon and one digit d, and the file R/ibus/bus/c-unix-d holds, after
\* the text pre and before the text suf, the line
\* IBUS_ADDRESS=a,guid=t.
DiscoveryCase(a, t, pre, suf) ==
    /\ IsSome(env.xdg)
    /\ IsSome(env.display)
    /\ Len(Unwrap(env.display)) = 2
    /\ Unwrap(env.display)[1] = ":"
    /\ Unwrap(env.display)[2] \in Digits
    /\ \E l \in LeftPads, c \in Cores, r \in RightPads :
          /\ File(MACHINE_ID_PATH, TRUE, l \o c \o r) \in env.fs
          /\ File(SocketPathOf(Unwrap(env.xdg), c, Unwrap(env.display)[2]),
                  TRUE, pre \o AddressLine(a, t) \o suf) \in env.fs

\* The text holds no ",guid".
NoGuidIn(t) == \A j \in 1..Len(t) : ~IsAt(GUID, t, j)

\* No line of the text holds IBUS_ADDRESS= and, further on, ",guid".
NoKeyLineIn(pre) ==
    \A i \in 1..Len(pre), j \in 1..Len(pre) :
        ~(/\ IsAt(KEY, pre, i)
          /\ j >= i + Len(KEY)
          /\ IsAt(GUID, pre, j)
          /\ NoNewline(pre, i, j))

\* C10, as claimed: in that environment get_ibus_address returns a, for
\* every address a and token t.
C10_AddressAsClaimed ==
    cpc # "resolve" =>
        \A a \in Addresses, t \in Tokens, pre \in Prefixes, suf \in Suffixes :
            DiscoveryCase(a, t, pre, suf) => ibus_address = Some(Ok(a))

\* C10, amended: in that environment get_ibus_address returns a, for every
\* address a, provided the token t holds no ",guid" and no earlier line of
\* the file holds IBUS_ADDRESS= followed on that line by ",guid".
C10_AddressVerbatim ==
    cpc # "resolve" =>
        \A a \in Addresses, t \in Tokens, pre \in Prefixes, suf \in Suffixes :
            (DiscoveryCase(a, t, pre, suf) /\ NoGuidIn(t) /\ NoKeyLineIn(pre))
                => ibus_address = Some(Ok(a))

\* The example of the specification: the machine id within white space,
\* a comment line, then IBUS_ADDRESS=unix:abstract=/tmp/x,guid=abc.
C10_Witness ==
    /\ cpc = "open"
    /\ File(MACHINE_ID_PATH, TRUE, <<" ", "m", "1", "\n">>) \in env.fs
    /\ DiscoveryCase(ADDR_X, <<"a", "b", "c">>, <<"#", "c", "\n">>, <<>>)
    /\ ibus_address =
          Some(Ok(<<"u", "n", "i", "x", ":", "a", "b", "s", "t", "r", "a",
                    "c", "t", "=", "/", "t", "m", "p", "/", "x">>))

(***************************************************************************)
(* The failures of get_ibus_address, under SpecAddr.                       *)
(***************************************************************************)
\* The paths get_ibus_address can compose in the environments of AddrEnvs.
ComposedPaths ==
    {SocketPathOf(r, c, v[2]) :
        r \in Roots, c \in Cores, v \in {w \in Displays : Len(w) >= 2}}

\* The kind of error each message of get_ibus_address stands for.
ErrorKind(msg) ==
    CASE msg = "$XDG_CONFIG_HOME not set" -> "MissingEnv"
      [] msg = "Could not open /etc/machine-id" -> "IoError"
      [] msg = "Something went wrong reading /etc/machine-id" -> "IoError"
      [] msg = "$DISPLAY not set. Try restarting bar if on sway" -> "MissingEnv"
      [] msg = "Failed to extract display number from $DISPLAY"
            -> "MalformedInput"
      [] \E p \in ComposedPaths : msg = "Could not open " \o Str(p)
            -> "IoError"
      [] \E p \in ComposedPaths : msg = "Error reading contents of " \o Str(p)
            -> "IoError"
      [] \E c \in SocketTexts :
            msg = "Failed to extract address out of " \o Str(c)
            -> "MalformedInput"
      [] OTHER -> "none"

\* The digits of the shape the specification gives $DISPLAY, a colon and
\* one digit: the display numbers 0 to 9.
DisplayDigits == {"0", "1", "2", "3", "4", "5", "6", "7", "8", "9"}

\* The conditions of failure, read off the environment.
RootMissing == env.xdg = None
MachineIdUnreadable ==
    \A f \in env.fs : f.path = MACHINE_ID_PATH => ~f.readable
DisplayMissing == env.display = None
DisplayMalformed ==
    /\ env.display # None
    /\ ~(/\ Len(Unwrap(env.display)) = 2
         /\ Unwrap(env.display)[1] = ":"
         /\ Unwrap(env.display)[2] \in DisplayDigits)

\* The discovery files of the environment: the files at R/ibus/bus/c-unix-d,
\* c being the machine id without the white space around it.
DiscoveryFiles ==
    {f \in env.fs :
        \E l \in LeftPads, c \in Cores, r \in RightPads :
            /\ File(MACHINE_ID_PATH, TRUE, l \o c \o r) \in env.fs
            /\ f.path = SocketPathOf(Unwrap(env.xdg), c, Unwrap(env.display)[2])}
DiscoveryFileMissing == \A f \in DiscoveryFiles : ~f.readable
PatternAbsent == \A f \in DiscoveryFiles : NoKeyLineIn(f.content)

\* The kind of the first step that fails, in the order of the steps, and
\* the step ("none" when no step fails).
FirstFailure ==
    IF RootMissing THEN <<"MissingEnv", "root">>
    ELSE IF MachineIdUnreadable THEN <<"IoError", "machine-id">>
    ELSE IF DisplayMissing THEN <<"MissingEnv", "display">>
    ELSE IF DisplayMalformed THEN <<"MalformedInput", "display">>
    ELSE IF DiscoveryFileMissing THEN <<"IoError", "discovery">>
    ELSE IF PatternAbsent THEN <<"MalformedInput", "discovery">>
    ELSE <<"none", "none">>

\* The step an error message belongs to.
ErrorStep(msg) ==
    CASE msg = "$XDG_CONFIG_HOME not set" -> "root"
      [] msg \in {"Could not open /etc/machine-id",
                  "Something went wrong reading /etc/machine-id"}
            -> "machine-id"
      [] msg \in {"$DISPLAY not set. Try restarting bar if on sway",
                  "Failed to extract display number from $DISPLAY"}
            -> "display"
      [] ErrorKind(msg) # "none" -> "discovery"
      [] OTHER -> "none"

\* C11: get_ibus_address fails with MissingEnv when the config root is not
\* set, IoError when the machine-id file cannot be read, MissingEnv when
\* $DISPLAY is not set, MalformedInput when $DISPLAY is not a colon and one
\* digit, IoError when the discovery file is missing, MalformedInput when it
\* holds no key pattern; when several of these hold, the error is that of
\* the earliest step; and when none holds it succeeds.
C11_AddressFailures ==
    cpc # "resolve" =>
        LET r == Unwrap(ibus_address)
        IN  IF FirstFailure[1] = "none"
            THEN r.ok /\ cpc # "err"
            ELSE /\ ~r.ok
                 /\ ErrorKind(r.err) = FirstFailure[1]
                 /\ ErrorStep(r.err) = FirstFailure[2]
                 /\ cpc = "err"
                 /\ newErr = r.err

(***************************************************************************)
(* The block under a scheduler that calls update() after every Task it     *)
(* receives, with threads that keep running, on a bus that carries the     *)
(* engine-change signals.                                                  *)
(***************************************************************************)
\* The scheduler has received a Task since it last called update(): it
\* calls update().
U_CallPending ==
    /\ cpc = "ok"
    /\ upc = "idle"
    /\ recvSeq > uLow
    /\ updates' = updates + 1
    /\ upc' = "lock"
    /\ uLow' = recvSeq
    /\ UNCHANGED <<snapshot, text, updResult, envVars, newVars, storeVars,
                   lisVars, chanVars, ret, writes, pushes>>

\* A step of the constructor, of the listener thread, and of a running
\* update().
NewStep ==
    \/ New_Resolve \/ New_Open \/ New_Query \/ New_Parse \/ New_Spawn
    \/ New_Return
ListenerStep ==
    \/ L_Open \/ L_AddMatch \/ L_Iter \/ L_IterTimeout \/ L_Parse \/ L_Lock
    \/ L_Write \/ L_WriteEnd \/ L_Send \/ L_Unlock
UpdateStep == U_Lock \/ U_Clone \/ U_Unlock \/ U_SetText

InitLive == env = GoodEnv /\ busEngine = US /\ InitRest
NextLive ==
    \/ NewStep \/ ListenerStep \/ UpdateStep
    \/ U_Call \/ U_CallPending
    \/ Bus_EngineChange \/ S_Recv
SpecLive ==
    /\ InitLive
    /\ [][NextLive]_vars
    /\ WF_vars(NewStep)
    /\ WF_vars(ListenerStep)
    /\ WF_vars(UpdateStep)
    /\ WF_vars(S_Recv)
    /\ WF_vars(U_CallPending)

\* C12: when the scheduler calls update() after every Task it receives,
\* then from some point on (signals having stopped) the text displayed is
\* the payload of the last accepted signal.
C12_EventuallyLatest ==
    <>[](Len(accepted) >= 1 => text = accepted[Len(accepted)])

\* Two Tasks were received before the one update() that was called, and the
\* text is the second payload.
C12_Witness ==
    /\ Len(accepted) = 2
    /\ uLow = 2
    /\ updates = 1
    /\ upc = "idle"
    /\ accepted[1] # accepted[2]
    /\ text = accepted[2]

\* C13: once the listener thread has ended because its connection or its
\* subscription failed, it stays ended; no Task was or is ever sent; the
\* store holds the value it was seeded with; the lock is not poisoned; and
\* every update() that has run returned Ok(None) and displayed the seeded
\* value.
C13_ListenerFailure ==
    /\ [](lpc = "panicked" =>
            /\ cpc \in {"return", "ok"}
            /\ accepted = <<>>
            /\ chan = <<>>
            /\ recvSeq = 0
            /\ engine = SeededValue
            /\ ~poisoned
            /\ lockHolder # "listener"
            /\ updResult \in {"none", "Ok(None)"}
            /\ (updates >= 1 /\ upc = "idle") =>
                   (updResult = "Ok(None)" /\ text = SeededValue))
    /\ [][lpc = "panicked" =>
            /\ lpc' = "panicked"
            /\ engine' = engine
            /\ chan' = chan]_vars

\* The subscription failed after the block was returned and the bus then
\* changed the engine; two calls of update() have run since.
C13_Witness ==
    /\ lpc = "panicked"
    /\ cpc = "ok"
    /\ msgs >= 1
    /\ busEngine # SeededValue
    /\ updates = 2
    /\ upc = "idle"
    /\ text = SeededValue
    /\ updResult = "Ok(None)"

\* C14: an update() that did not fail has returned Ok(None) and left as text
\* the copy it took; the copy is the content of the store at the time it is
\* taken; and the step that ends the call sets the text to that copy,
\* however many calls came before.
C14_EventDriven ==
    /\ []((updates >= 1 /\ upc = "idle" /\ updResult # E_LOCK) =>
            (updResult = "Ok(None)" /\ text = snapshot))
    /\ [][(upc = "clone" /\ upc' # "clone") => snapshot' = engine]_vars
    /\ [][(upc # "idle" /\ upc' = "idle" /\ updResult' # E_LOCK) =>
            /\ text' = snapshot
            /\ snapshot' = snapshot
            /\ updResult' = "Ok(None)"]_vars

\* The second call of update() has returned and changed the text from the
\* seeded value to an accepted payload.
C14_Witness ==
    /\ updates = 2
    /\ upc = "idle"
    /\ updResult = "Ok(None)"
    /\ Len(accepted) >= 1
    /\ text = accepted[Len(accepted)]
    /\ text # SeededValue
    /\ text = snapshot

\* C15: once ConfigBlock::new has stored the initial value, the String in the
\* Mutex changes only in the listener's write of an accepted payload, made
\* while the listener holds the lock; no step of update() and no call of
\* id(), view() or click() changes it; and a call of click() changes neither
\* the text nor the channel.
C15_SoleWriter ==
    /\ [][(cpc \notin {"resolve", "open", "query", "parse"}
           /\ engine' # engine) =>
            /\ lpc \in {"write", "write_end"}
            /\ lpc' # lpc
            /\ lockHolder = "listener"
            /\ Matches(ci)
            /\ engine_name = accepted[Len(accepted)]
            /\ engine' \in {PartlyWritten(engine, engine_name), engine_name}
          ]_vars
    /\ [][(upc' # upc \/ updates' # updates \/ ret' # ret) =>
            engine' = engine]_vars
    /\ [][(ret' # ret /\ ret'[1] = "click") =>
            /\ text' = text
            /\ chan' = chan
            /\ recvSeq' = recvSeq
            /\ engine' = engine
            /\ ret' = <<"click", "Ok(())">>]_vars

\* click() has returned while the store holds an accepted payload that the
\* text does not show yet and a Task waits in the channel.
C15_Witness ==
    /\ ret = <<"click", "Ok(())">>
    /\ Len(accepted) >= 1
    /\ engine = accepted[Len(accepted)]
    /\ updates >= 1
    /\ upc = "idle"
    /\ text # engine
    /\ chan # <<>>

\* C16 as claimed: at every point the number of Tasks sent equals the number
\* of writes of the store the listener has completed, and every Task carries
\* the id of the block.
C16_PushesEqualWrites ==
    /\ pushes = writes
    /\ \A i \in 1..Len(chan) : chan[i].id = Unwrap(id)

\* C16, amended: the number of Tasks sent never exceeds the number of
\* completed writes and is less, by one, exactly while the listener is
\* between its write and its send; when the listener is not handling a
\* signal both equal the number of accepted signals; a Task is sent only
\* right after a write not yet notified, one at a time; and every Task
\* carries the id that id() returns.
C16_OnePerSignal ==
    /\ [](/\ pushes <= writes
          /\ writes <= pushes + 1
          /\ (writes = pushes + 1) <=> (lpc = "send")
          /\ recvSeq + Len(chan) = pushes
          /\ lpc \notin {"lock", "write", "write_end", "send"} =>
                 (pushes = Len(accepted) /\ writes = Len(accepted))
          /\ \A i \in 1..Len(chan) :
                 /\ chan[i].id = Unwrap(id)
                 /\ ret[1] = "id" => chan[i].id = ret[2])
    /\ [][pushes' # pushes =>
            /\ pushes' = pushes + 1
            /\ writes = pushes + 1
            /\ writes' = writes
            /\ Len(chan') = Len(chan) + 1
            /\ chan'[Len(chan')].id = Unwrap(id)]_vars

\* Two signals were accepted, two writes completed and two Tasks sent, both
\* still in the channel, and id() has returned.
C16_Witness ==
    /\ Len(accepted) = 2
    /\ writes = 2
    /\ pushes = 2
    /\ Len(chan) = 2
    /\ ret[1] = "id"
    /\ chan[1].id = ret[2]
    /\ chan[2].id = ret[2]

\* The item is the subscribed signal and its first argument is absent or is
\* not text.
Unextractable(item) ==
    /\ Matches(item)
    /\ \/ Len(item.args) = 0
       \/ item.args[1].t # "str"

\* C17: the listener's handling of a subscribed signal whose first argument
\* is absent or not text sends it back to the receive loop with the store,
\* the channel and the counts of writes and Tasks as they were; "??" is
\* never accepted as a payload.
C17_FailedExtraction ==
    /\ [][(lpc = "parse" /\ Unextractable(ci) /\ lpc' # lpc) =>
            /\ lpc' = "iter"
            /\ engine' = engine
            /\ lockHolder' = lockHolder
            /\ accepted' = accepted
            /\ chan' = chan
            /\ writes' = writes
            /\ pushes' = pushes]_vars
    /\ [](Unextractable(ci) => lpc \in {"parse", "iter"})
    /\ [](\A i \in 1..Len(accepted) : accepted[i] # <<"?", "?">>)

\* A subscribed signal with a number as first argument has been dropped
\* after a signal was accepted: the store holds the accepted payload.
C17_Witness ==
    /\ lpc = "iter"
    /\ Matches(ci)
    /\ Len(ci.args) = 1
    /\ ci.args[1].t = "int"
    /\ Len(accepted) = 1
    /\ engine = accepted[1]
    /\ engine # SeededValue
    /\ pushes = 1

\* C18: with threads that keep running and a channel that takes every Task,
\* every call of update() returns; and whenever the listener holds the lock
\* of the store it can take its next step, so update() never waits for a
\* listener that waits itself.
C18_UpdateCompletes ==
    /\ (upc # "idle") ~> (upc = "idle")
    /\ [](lockHolder = "listener" => ENABLED ListenerStep)

\* update() waits for the lock while the listener holds it and is about to
\* send its Task.
C18_Witness ==
    /\ upc = "lock"
    /\ lockHolder = "listener"
    /\ lpc = "send"

\* C19: the lock of the store is never poisoned and update() never returns
\* the lock error; the listener thread ends only at its open or add_match
\* statement, holding no lock, before it has accepted any signal or written
\* the store.
C19_NoLockError ==
    /\ [](/\ ~poisoned
          /\ updResult # "failed to acquire lock"
          /\ updResult \in {"none", "Ok(None)"}
          /\ lpc = "panicked" => (writes = 0 /\ accepted = <<>>))
    /\ [][(lpc # "panicked" /\ lpc' = "panicked") =>
            /\ lpc \in {"open", "add_match"}
            /\ lockHolder # "listener"
            /\ lockHolder' = lockHolder]_vars

\* After the listener thread ended, update() has taken the lock and holds
\* it for its copy.
C19_Witness ==
    /\ lpc = "panicked"
    /\ upc = "clone"
    /\ lockHolder = "update"
    /\ updates = 2
    /\ updResult = "Ok(None)"

\* The number of calls of update() that have set the text.
Completed == IF upc = "idle" THEN updates ELSE updates - 1

\* C20: the text of the block is "IBus" until the first update() sets it;
\* after that it is the copy the last finished update() took, until the
\* next update() sets it, whatever the listener writes meanwhile; the text
\* changes only in the last step of update() (and when the block is built);
\* and view() returns the widget with that text.
C20_TextFrame ==
    /\ []((cpc = "ok" /\ Completed = 0) => text = <<"I", "B", "u", "s">>)
    /\ []((cpc = "ok" /\ Completed >= 1
           /\ upc \in {"idle", "lock", "clone"}) => text = snapshot)
    /\ [][text' # text =>
            \/ upc = "set_text" /\ upc' = "idle" /\ text' = snapshot
            \/ cpc = "return" /\ cpc' = "ok" /\ text' = <<"I", "B", "u", "s">>
          ]_vars
    /\ [][(engine' # engine \/ lpc' # lpc) => text' = text]_vars
    /\ [][(ret' # ret /\ ret'[1] = "view") =>
            (ret'[2] = <<text>> /\ text' = text)]_vars

\* The listener has written a payload since the one finished update(), and
\* view() has returned the text, which is still the copy of that update().
C20_Witness ==
    /\ updates = 1
    /\ upc = "idle"
    /\ writes >= 1
    /\ engine = accepted[Len(accepted)]
    /\ text = SeededValue
    /\ text # engine
    /\ ret = <<"view", <<text>>>>

=============================================================================
